---- MODULE Spec2Model ----
(***************************************************************************)
(* khimeradb: a sorted segment table (src/src/kv.rs), a length-prefixed    *)
(* append log (src/src/log.rs) and a segmented file stream                 *)
(* (src/src/streams.rs), each modelled as a state machine.                 *)
(*                                                                         *)
(* Bytes are numbers 0..255, byte strings are sequences of bytes, a Rust   *)
(* String is the sequence of its UTF-8 bytes, a file name is a sequence of *)
(* one-character strings, and Option<T> is a record [some, v].             *)
(***************************************************************************)
EXTENDS Integers, Sequences, FiniteSets, TLC

VARIABLES
    \* ---- SSTable (kv.rs) ----
    segments,   \* SSTable.segments: Vec<SSTableSegment>
    isDir,      \* whether SSTable.path is a directory
    files,      \* the regular files of that directory: file name -> content
    result,     \* what the last call on the table returned: "Ok" or an error kind
    readErr,    \* what SSTable::read returned inside the last try_new
    last,       \* history: key -> the last write issued on this table object
    op,         \* history: the last operation
    loaded,     \* history: how many segments the last construction loaded
    fresh,      \* history: the table was constructed over an empty directory
    compacted,  \* history: compact has run on this table object
    nops,       \* history: number of operations so far
    mutations,  \* history: number of insert and delete calls on this table object
    rt,         \* the last write_segment/read_segment round trip
    \* ---- Log over an in-memory Cursor (log.rs) ----
    storage,    \* Log.storage: Cursor<Vec<u8>> as [inner, pos]
    iter,       \* the live LogIterator: [active, position, done]
    yielded,    \* the items the live iterator has returned so far
    appended,   \* history: the entries appended whose frames are complete, in order
    torn,       \* history: the last frame of the log was cut short
    prev,       \* history: what the last finished iteration since the last append yielded
    resumed,    \* history: the last append came after an iteration had read the log
    \* ---- FileSegmentStream (streams.rs) ----
    stream,     \* [segments, position, max_segment_size, panicked]
    overflowChecks, \* whether the build has integer overflow checks (debug-assertions)
    sresult,    \* what the last call on the stream returned
    scall,      \* history: the last call on the stream and its argument
    readOut,    \* the last read: [done, at, n, data]
    written,    \* history: concatenation of all buffers written
    phase,      \* history: "writes", then "seeks", then "read"; "mixed" otherwise
    sops,       \* history: number of stream calls so far
    \* ---- StorageEngine (spec.md 4.4) ----
    wal,        \* the records appended to and flushed by the write-ahead log, in order
    epc,        \* where the engine is in a mutation: "idle", or "logged" before the apply
    eresult,    \* what the last engine call returned
    \* ---- SSTable::read_segment on its own (kv.rs) ----
    input,      \* the reader's content: [records, cut, serial], the first `cut` bytes
                \* of the encoding of `records`, and the initial serial
    decoded     \* [done, r]: what read_segment returned once it has been called

tableVars ==
    <<segments, isDir, files, result, readErr, last, op, loaded, fresh, compacted, nops,
      mutations, rt>>
logVars == <<storage, iter, yielded, appended, torn, prev, resumed>>
streamVars == <<stream, overflowChecks, sresult, scall, readOut, written, phase, sops>>
engineVars == <<wal, epc, eresult>>
decodeVars == <<input, decoded>>
vars == <<tableVars, logVars, streamVars, engineVars, decodeVars>>

-----------------------------------------------------------------------------
(* Bounds of the model *)

\* the number of table operations in a behaviour
MaxOps == 4

-----------------------------------------------------------------------------
(* Generic helpers *)

Min(a, b) == IF a < b THEN a ELSE b

None == [some |-> FALSE, v |-> <<>>]
Some(x) == [some |-> TRUE, v |-> x]

\* BTreeMap::insert
Put(m, k, e) == [x \in (DOMAIN m) \cup {k} |-> IF x = k THEN e ELSE m[x]]

EmptyMap == [x \in {} |-> None]

\* Ord for String / [u8]: byte-wise lexicographic order
LexLess(a, b) ==
    \E i \in 1..(Min(Len(a), Len(b)) + 1) :
        /\ \A j \in 1..(i - 1) : a[j] = b[j]
        /\ \/ i > Len(a) /\ i <= Len(b)
           \/ i <= Len(a) /\ i <= Len(b) /\ a[i] < b[i]

\* the iteration order of a BTreeMap's keys
RECURSIVE SortedKeys(_)
SortedKeys(S) ==
    IF S = {} THEN <<>>
    ELSE LET k == CHOOSE x \in S : \A y \in S \ {x} : LexLess(x, y)
         IN <<k>> \o SortedKeys(S \ {k})

-----------------------------------------------------------------------------
(* SSTableSegment *)

SEGMENT_SIZE_LIMIT == 1024

SSTableSegment_new(serial) == [data |-> EmptyMap, size |-> 0, serial |-> serial]

SSTableSegment_insert(seg, key, value) ==
    LET s1 == IF key \in DOMAIN seg.data /\ seg.data[key].some
              THEN seg.size - Len(seg.data[key].v)
              ELSE seg.size + Len(key)
        s2 == IF value.some THEN s1 + Len(value.v) ELSE s1
    IN [data |-> Put(seg.data, key, value), size |-> s2, serial |-> seg.serial + 1]

\* a delete that leaves the serial as it is
SSTableSegment_delete_unserialled(seg, key) ==
    LET s1 == IF key \in DOMAIN seg.data /\ seg.data[key].some
              THEN seg.size - Len(seg.data[key].v)
              ELSE seg.size
    IN [data |-> Put(seg.data, key, None), size |-> s1, serial |-> seg.serial]

SSTableSegment_delete(seg, key) ==
    LET s1 == IF key \in DOMAIN seg.data /\ seg.data[key].some
              THEN seg.size - Len(seg.data[key].v)
              ELSE seg.size
    IN [data |-> Put(seg.data, key, None), size |-> s1, serial |-> seg.serial + 1]

-----------------------------------------------------------------------------
(* Binary segment format *)

\* u32::to_le_bytes
to_le_bytes(n) ==
    <<n % 256, (n \div 256) % 256, (n \div 65536) % 256, (n \div 16777216) % 256>>

\* u32::from_le_bytes
from_le_bytes(b) == b[1] + 256 * b[2] + 65536 * b[3] + 16777216 * b[4]

RECURSIVE write_entries(_, _)
write_entries(keys, data) ==
    IF keys = <<>> THEN <<>>
    ELSE LET key == Head(keys)
             value == data[key]
             body == IF value.some
                     THEN to_le_bytes(Len(value.v)) \o value.v
                     ELSE <<0, 0, 0, 0>>
         IN key \o <<0>> \o body \o write_entries(Tail(keys), data)

\* SSTable::write_segment: the bytes handed to the writer
write_segment(segment) == write_entries(SortedKeys(DOMAIN segment.data), segment.data)

\* String::from_utf8 succeeds (well-formed UTF-8 byte sequences, Unicode table 3-7)
RECURSIVE IsUtf8(_)
IsUtf8(b) ==
    LET n == Len(b)
        Cont(i) == i <= n /\ b[i] >= 128 /\ b[i] <= 191
        In(i, lo, hi) == i <= n /\ b[i] >= lo /\ b[i] <= hi
        Rest(k) == IsUtf8(SubSeq(b, k + 1, n))
    IN IF n = 0 THEN TRUE
       ELSE IF b[1] <= 127 THEN Rest(1)
       ELSE IF b[1] >= 194 /\ b[1] <= 223 THEN Cont(2) /\ Rest(2)
       ELSE IF b[1] = 224 THEN In(2, 160, 191) /\ Cont(3) /\ Rest(3)
       ELSE IF b[1] = 237 THEN In(2, 128, 159) /\ Cont(3) /\ Rest(3)
       ELSE IF b[1] >= 225 /\ b[1] <= 239 THEN Cont(2) /\ Cont(3) /\ Rest(3)
       ELSE IF b[1] = 240 THEN In(2, 144, 191) /\ Cont(3) /\ Cont(4) /\ Rest(4)
       ELSE IF b[1] >= 241 /\ b[1] <= 243 THEN Cont(2) /\ Cont(3) /\ Cont(4) /\ Rest(4)
       ELSE IF b[1] = 244 THEN In(2, 128, 143) /\ Cont(3) /\ Cont(4) /\ Rest(4)
       ELSE FALSE

\* a loop that takes an end of input inside the length field as the end of the segment
RECURSIVE read_entries_lenient(_, _, _)
read_entries_lenient(bytes, p, segment) ==
    LET n == Len(bytes)
        zeros == {i \in p..n : bytes[i] = 0}
    IN IF zeros = {}
       THEN IF p > n THEN [ok |-> TRUE, segment |-> segment, err |-> "none"]
            ELSE [ok |-> FALSE, segment |-> segment, err |-> "UnexpectedEof"]
       ELSE LET q == CHOOSE i \in zeros : \A j \in zeros : i <= j
                key == SubSeq(bytes, p, q - 1)
            IN IF ~IsUtf8(key)
               THEN [ok |-> FALSE, segment |-> segment, err |-> "InvalidData"]
               ELSE IF q + 4 > n
               THEN [ok |-> TRUE, segment |-> segment, err |-> "none"]
               ELSE LET value_len == from_le_bytes(SubSeq(bytes, q + 1, q + 4))
                    IN IF value_len = 0
                       THEN read_entries_lenient(bytes, q + 5,
                                         SSTableSegment_insert(segment, key, None))
                       ELSE IF q + 4 + value_len > n
                       THEN [ok |-> FALSE, segment |-> segment, err |-> "UnexpectedEof"]
                       ELSE read_entries_lenient(bytes, q + 5 + value_len,
                                SSTableSegment_insert(segment, key,
                                    Some(SubSeq(bytes, q + 5, q + 4 + value_len))))

\* the loop of SSTable::read_segment from offset p (1-based) of the input
RECURSIVE read_entries(_, _, _)
read_entries(bytes, p, segment) ==
    LET n == Len(bytes)
        zeros == {i \in p..n : bytes[i] = 0}
    IN IF zeros = {}
       THEN \* read_exact hits the end of the input while reading a key
            IF p > n THEN [ok |-> TRUE, segment |-> segment, err |-> "none"]
            ELSE [ok |-> FALSE, segment |-> segment, err |-> "UnexpectedEof"]
       ELSE LET q == CHOOSE i \in zeros : \A j \in zeros : i <= j
                key == SubSeq(bytes, p, q - 1)
            IN IF ~IsUtf8(key)
               THEN [ok |-> FALSE, segment |-> segment, err |-> "InvalidData"]
               ELSE IF q + 4 > n
               THEN [ok |-> FALSE, segment |-> segment, err |-> "UnexpectedEof"]
               ELSE LET value_len == from_le_bytes(SubSeq(bytes, q + 1, q + 4))
                    IN IF value_len = 0
                       THEN read_entries(bytes, q + 5,
                                         SSTableSegment_insert(segment, key, None))
                       ELSE IF q + 4 + value_len > n
                       THEN [ok |-> FALSE, segment |-> segment, err |-> "UnexpectedEof"]
                       ELSE read_entries(bytes, q + 5 + value_len,
                                SSTableSegment_insert(segment, key,
                                    Some(SubSeq(bytes, q + 5, q + 4 + value_len))))

\* SSTable::read_segment: [ok, segment, err]
read_segment(bytes, initial_serial) ==
    read_entries(bytes, 1, SSTableSegment_new(initial_serial))

-----------------------------------------------------------------------------
(* File names *)

Digits == <<"0", "1", "2", "3", "4", "5", "6", "7", "8", "9">>

DigitValue(c) == (CHOOSE i \in 1..10 : Digits[i] = c) - 1

IsDigit(c) == \E i \in 1..10 : Digits[i] = c

\* Display for u64: decimal, no sign, no leading zeros
RECURSIVE to_string(_)
to_string(n) ==
    IF n < 10 THEN <<Digits[n + 1]>>
    ELSE to_string(n \div 10) \o <<Digits[(n % 10) + 1]>>

\* format!("{}.sst", s.serial)
sst_filename(serial) == to_string(serial) \o <<".", "s", "s", "t">>

RECURSIVE DecimalValue(_)
DecimalValue(s) ==
    IF s = <<>> THEN 0
    ELSE 10 * DecimalValue(SubSeq(s, 1, Len(s) - 1)) + DigitValue(s[Len(s)])

\* str::parse::<u64>: an optional "+", then one or more decimal digits
parse_u64(s) ==
    LET d == IF s # <<>> /\ s[1] = "+" THEN Tail(s) ELSE s
    IN IF d # <<>> /\ \A i \in 1..Len(d) : IsDigit(d[i])
       THEN Some(DecimalValue(d))
       ELSE None

\* the index of the last "." of a file name that splits stem from extension, or 0
LastDot(name) ==
    LET dots == {i \in 2..Len(name) : name[i] = "."}
    IN IF dots = {} THEN 0 ELSE CHOOSE i \in dots : \A j \in dots : j <= i

\* Path::extension
extension(name) ==
    IF LastDot(name) = 0 THEN None
    ELSE Some(SubSeq(name, LastDot(name) + 1, Len(name)))

\* Path::file_stem
file_stem(name) ==
    IF LastDot(name) = 0 THEN name ELSE SubSeq(name, 1, LastDot(name) - 1)

parse_serial(name) == parse_u64(file_stem(name))

-----------------------------------------------------------------------------
(* SSTable *)

\* a write loop that goes on to the open tail segment
RECURSIVE write_loop_with_tail(_, _, _)
write_loop_with_tail(segs, i, fs) ==
    IF i > Len(segs) THEN fs
    ELSE LET filename == sst_filename(segs[i].serial)
         IN IF filename \in DOMAIN fs
            THEN write_loop_with_tail(segs, i + 1, fs)
            ELSE write_loop_with_tail(segs, i + 1,
                                      Put(fs, filename, write_segment(segs[i])))

\* the loop of SSTable::write over the segments from index i on
RECURSIVE write_loop(_, _, _)
write_loop(segs, i, fs) ==
    IF i > Len(segs) - 1 THEN fs
    ELSE LET filename == sst_filename(segs[i].serial)
         IN IF filename \in DOMAIN fs
            THEN write_loop(segs, i + 1, fs)
            ELSE write_loop(segs, i + 1, Put(fs, filename, write_segment(segs[i])))

\* SSTable::write: [files, result]
SSTable_write(segs, dirOk, fs) ==
    IF ~dirOk THEN [files |-> fs, result |-> "InvalidInput"]
    ELSE [files |-> write_loop(segs, 1, fs), result |-> "Ok"]

\* an add_segment that pushes the new tail and persists nothing
add_segment_unpersisted(segs, dirOk, fs) ==
    [segments |-> Append(segs, SSTableSegment_new(segs[Len(segs)].serial)),
     files |-> fs, result |-> "Ok"]

\* an add_segment that takes the new tail back when the write fails
add_segment_rolling_back(segs, dirOk, fs) ==
    LET pushed == Append(segs, SSTableSegment_new(segs[Len(segs)].serial))
        w == SSTable_write(pushed, dirOk, fs)
    IN [segments |-> IF w.result = "Ok" THEN pushed ELSE segs,
        files |-> w.files, result |-> w.result]

\* an add_segment whose new tail starts again from serial 0
add_segment_reseeded(segs, dirOk, fs) ==
    LET pushed == Append(segs, SSTableSegment_new(0))
        w == SSTable_write(pushed, dirOk, fs)
    IN [segments |-> pushed, files |-> w.files, result |-> w.result]

\* SSTable::add_segment: [segments, files, result]
add_segment(segs, dirOk, fs) ==
    LET pushed == Append(segs, SSTableSegment_new(segs[Len(segs)].serial))
        w == SSTable_write(pushed, dirOk, fs)
    IN [segments |-> pushed, files |-> w.files, result |-> w.result]

\* SSTable::insert: [segments, files, result]
SSTable_insert(segs, dirOk, fs, key, value) ==
    LET last_index == Len(segs)
        segs1 == [segs EXCEPT ![last_index] = SSTableSegment_insert(@, key, Some(value))]
    IN IF segs1[last_index].size > SEGMENT_SIZE_LIMIT
       THEN add_segment(segs1, dirOk, fs)
       ELSE [segments |-> segs1, files |-> fs, result |-> "Ok"]

\* a delete that writes the tombstone into the first segment
SSTable_delete_first(segs, key) ==
    [segs EXCEPT ![1] = SSTableSegment_delete(@, key)]

\* SSTable::delete
SSTable_delete(segs, key) ==
    [segs EXCEPT ![Len(segs)] = SSTableSegment_delete(@, key)]

\* SSTable::get: Option<Box<[u8]>>, scanning the segments from the last to the first
RECURSIVE get_from(_, _, _)
get_from(segs, i, key) ==
    IF i = 0 THEN None
    ELSE IF key \in DOMAIN segs[i].data THEN segs[i].data[key]
    ELSE get_from(segs, i - 1, key)

\* a get that scans the segments from the first to the last
RECURSIVE get_from_head(_, _, _)
get_from_head(segs, i, key) ==
    IF i > Len(segs) THEN None
    ELSE IF key \in DOMAIN segs[i].data THEN segs[i].data[key]
    ELSE get_from_head(segs, i + 1, key)

SSTable_get_oldest_first(segs, key) == get_from_head(segs, 1, key)

SSTable_get(segs, key) == get_from(segs, Len(segs), key)

\* a merge that keeps the entry already in merged
Overlay_keep_first(merged, data) ==
    [k \in (DOMAIN merged) \cup (DOMAIN data) |->
        IF k \in DOMAIN merged THEN merged[k] ELSE data[k]]

\* merged.insert(key, value) for every entry of one segment
Overlay(merged, data) ==
    [k \in (DOMAIN merged) \cup (DOMAIN data) |->
        IF k \in DOMAIN data THEN data[k] ELSE merged[k]]

\* the first loop of SSTable::compact
RECURSIVE merge_from(_, _, _)
merge_from(segs, i, merged) ==
    IF i > Len(segs) THEN merged
    ELSE merge_from(segs, i + 1, Overlay(merged, segs[i].data))

\* a second loop that leaves the tombstones out of the new segments
RECURSIVE chunk_dropping_tombstones(_, _, _)
chunk_dropping_tombstones(keys, merged, new_segments) ==
    IF keys = <<>> THEN new_segments
    ELSE LET key == Head(keys)
             value == merged[key]
             current_segment == Len(new_segments)
             entry_size == Len(key) + (IF value.some THEN Len(value.v) ELSE 0)
             segment == SSTableSegment_insert(new_segments[current_segment], key, value)
             inserted == [new_segments EXCEPT ![current_segment] = segment]
         IN IF ~value.some
            THEN chunk_dropping_tombstones(Tail(keys), merged, new_segments)
            ELSE IF segment.size + entry_size > SEGMENT_SIZE_LIMIT
            THEN chunk_dropping_tombstones(Tail(keys), merged,
                       Append(inserted, SSTableSegment_new(segment.serial)))
            ELSE chunk_dropping_tombstones(Tail(keys), merged, inserted)

\* the second loop of SSTable::compact, over the keys of merged in order
RECURSIVE chunk(_, _, _)
chunk(keys, merged, new_segments) ==
    IF keys = <<>> THEN new_segments
    ELSE LET key == Head(keys)
             value == merged[key]
             current_segment == Len(new_segments)
             entry_size == Len(key) + (IF value.some THEN Len(value.v) ELSE 0)
             segment == SSTableSegment_insert(new_segments[current_segment], key, value)
             inserted == [new_segments EXCEPT ![current_segment] = segment]
         IN IF segment.size + entry_size > SEGMENT_SIZE_LIMIT
            THEN chunk(Tail(keys), merged,
                       Append(inserted, SSTableSegment_new(segment.serial)))
            ELSE chunk(Tail(keys), merged, inserted)

\* a compact whose new sequence starts again from serial 0
SSTable_compact_from_zero(segs) ==
    LET merged == merge_from(segs, 1, EmptyMap)
    IN chunk(SortedKeys(DOMAIN merged), merged, <<SSTableSegment_new(0)>>)

\* SSTable::compact: the new segment list
SSTable_compact(segs) ==
    LET merged == merge_from(segs, 1, EmptyMap)
        last_serial == segs[Len(segs)].serial
    IN chunk(SortedKeys(DOMAIN merged), merged, <<SSTableSegment_new(last_serial)>>)

\* entries.sort_by_key(|p| parse_serial(p).unwrap())
RECURSIVE sort_by_serial(_)
sort_by_serial(names) ==
    IF names = {} THEN <<>>
    ELSE LET n == CHOOSE x \in names :
                    \A y \in names : parse_serial(x).v <= parse_serial(y).v
         IN <<n>> \o sort_by_serial(names \ {n})

\* the last loop of SSTable::read: [ok, segments, err]
RECURSIVE read_loop(_, _, _, _)
read_loop(entries, fs, serial, segs) ==
    IF entries = <<>> THEN [ok |-> TRUE, segments |-> segs, err |-> "none"]
    ELSE LET path == Head(entries)
             file_serial == parse_serial(path).v
             r == read_segment(fs[path], serial)
         IN IF ~r.ok THEN [ok |-> FALSE, segments |-> <<>>, err |-> r.err]
            ELSE IF file_serial # r.segment.serial
            THEN [ok |-> FALSE, segments |-> <<>>, err |-> "InvalidData"]
            ELSE read_loop(Tail(entries), fs, r.segment.serial, Append(segs, r.segment))

\* SSTable::read: [ok, segments, err]
SSTable_read(dirOk, fs) ==
    IF ~dirOk THEN [ok |-> FALSE, segments |-> <<>>, err |-> "InvalidInput"]
    ELSE IF \E n \in DOMAIN fs : extension(n) # Some(<<"s", "s", "t">>)
    THEN [ok |-> FALSE, segments |-> <<>>, err |-> "InvalidInput"]
    ELSE IF \E n \in DOMAIN fs : ~parse_serial(n).some
    THEN [ok |-> FALSE, segments |-> <<>>, err |-> "InvalidInput"]
    ELSE read_loop(sort_by_serial(DOMAIN fs), fs, 0, <<>>)

\* SSTable::try_new: [result, segments]; read's error is dropped by unwrap_or_default
SSTable_try_new(dirOk, fs) ==
    LET r == SSTable_read(dirOk, fs)
        segs == IF r.ok THEN r.segments ELSE <<>>
    IN [result |-> "Ok",
        segments |-> IF segs = <<>> THEN <<SSTableSegment_new(0)>> ELSE segs]

-----------------------------------------------------------------------------
(* The table as a state machine *)

\* the keys the calls draw from: "a" and "bb"
Keys == {<<97>>, <<98, 98>>}

\* tests::filler: vec![0u8; SEGMENT_SIZE_LIMIT]
filler == [i \in 1..SEGMENT_SIZE_LIMIT |-> 0]

\* the values the calls draw from: empty, one byte, and one that overflows a segment
Values == {<<>>, <<7>>, filler}

NoRoundTrip ==
    [index |-> 0, source |-> SSTableSegment_new(0), decoded |-> read_segment(<<>>, 0)]

\* a table constructed by try_new over an empty temporary directory
TableInit ==
    /\ isDir = TRUE
    /\ files = EmptyMap
    /\ segments = SSTable_try_new(TRUE, EmptyMap).segments
    /\ result = "Ok"
    /\ readErr = "none"
    /\ last = [k \in Keys |-> None]
    /\ op = "try_new"
    /\ loaded = 0
    /\ fresh = TRUE
    /\ compacted = FALSE
    /\ nops = 0
    /\ mutations = 0
    /\ rt = NoRoundTrip

\* table.insert(key, value)
Insert(key, value) ==
    /\ nops < MaxOps
    /\ LET r == SSTable_insert(segments, isDir, files, key, value)
       IN /\ segments' = r.segments
          /\ files' = r.files
          /\ result' = r.result
    /\ last' = [last EXCEPT ![key] = Some(value)]
    /\ op' = "insert"
    /\ nops' = nops + 1
    /\ mutations' = mutations + 1
    /\ rt' = NoRoundTrip
    /\ UNCHANGED <<isDir, readErr, loaded, fresh, compacted, logVars, streamVars,
                   engineVars, decodeVars>>

\* a delete that seals the tail, as insert does, when its size is above the limit
Delete_rotating(key) ==
    /\ nops < MaxOps
    /\ LET segs1 == SSTable_delete(segments, key)
           r == IF segs1[Len(segs1)].size > SEGMENT_SIZE_LIMIT
                THEN add_segment(segs1, isDir, files)
                ELSE [segments |-> segs1, files |-> files, result |-> "Ok"]
       IN /\ segments' = r.segments
          /\ files' = r.files
          /\ result' = r.result
    /\ last' = [last EXCEPT ![key] = None]
    /\ op' = "delete"
    /\ nops' = nops + 1
    /\ mutations' = mutations + 1
    /\ rt' = NoRoundTrip
    /\ UNCHANGED <<isDir, readErr, loaded, fresh, compacted, logVars, streamVars,
                   engineVars, decodeVars>>

\* table.delete(key)
Delete(key) ==
    /\ nops < MaxOps
    /\ segments' = SSTable_delete(segments, key)
    /\ result' = "Ok"
    /\ last' = [last EXCEPT ![key] = None]
    /\ op' = "delete"
    /\ nops' = nops + 1
    /\ mutations' = mutations + 1
    /\ rt' = NoRoundTrip
    /\ UNCHANGED <<isDir, files, readErr, loaded, fresh, compacted, logVars, streamVars,
                   engineVars, decodeVars>>

\* a compact that goes on to persist the segments it built
Compact_persisting ==
    /\ nops < MaxOps
    /\ segments' = SSTable_compact(segments)
    /\ files' = SSTable_write(segments', isDir, files).files
    /\ result' = "Ok"
    /\ op' = "compact"
    /\ compacted' = TRUE
    /\ nops' = nops + 1
    /\ rt' = NoRoundTrip
    /\ UNCHANGED <<isDir, readErr, last, loaded, fresh, mutations, logVars, streamVars,
                   engineVars, decodeVars>>

\* table.compact()
Compact ==
    /\ nops < MaxOps
    /\ segments' = SSTable_compact(segments)
    /\ result' = "Ok"
    /\ op' = "compact"
    /\ compacted' = TRUE
    /\ nops' = nops + 1
    /\ rt' = NoRoundTrip
    /\ UNCHANGED <<isDir, files, readErr, last, loaded, fresh, mutations, logVars,
                   streamVars, engineVars, decodeVars>>

\* SSTable::try_new(path) builds a table on the directory as it is
Construct ==
    /\ LET r == SSTable_read(isDir, files)
           t == SSTable_try_new(isDir, files)
       IN /\ segments' = t.segments
          /\ result' = t.result
          /\ readErr' = r.err
          /\ loaded' = Len(r.segments)
          /\ last' = [k \in Keys |-> SSTable_get(t.segments, k)]
    /\ op' = "try_new"
    /\ fresh' = (isDir /\ files = EmptyMap)
    /\ compacted' = FALSE
    /\ nops' = nops + 1
    /\ mutations' = 0
    /\ rt' = NoRoundTrip
    /\ UNCHANGED <<isDir, files, logVars, streamVars, decodeVars>>

\* the table is dropped and a second one is constructed on the same directory
Reopen ==
    /\ nops < MaxOps
    /\ Construct
    /\ UNCHANGED <<engineVars, decodeVars>>

\* table.write(path) on the table's own directory (tests::test_write_idempotency);
\* op tells a write that follows a write from the first
Persist ==
    /\ nops < MaxOps
    /\ LET w == SSTable_write(segments, isDir, files)
       IN /\ files' = w.files
          /\ result' = w.result
    /\ op' = IF op \in {"write", "write_again"} THEN "write_again" ELSE "write"
    /\ nops' = nops + 1
    /\ rt' = NoRoundTrip
    /\ UNCHANGED <<segments, isDir, readErr, last, loaded, fresh, compacted,
                   mutations, logVars, streamVars, engineVars, decodeVars>>

\* the table's directory goes away under the live table, so that path.is_dir() is
\* false from then on (the path of tests::test_write_invalid_path)
RemoveDirectory ==
    /\ isDir
    /\ isDir' = FALSE
    /\ files' = EmptyMap
    /\ UNCHANGED <<segments, result, readErr, last, op, loaded, fresh, compacted, nops,
                   mutations, rt, logVars, streamVars, engineVars, decodeVars>>

\* write_segment into a buffer, then read_segment from it (tests::test_read_segment)
RoundTrip(i) ==
    /\ rt.index # i
    /\ rt' = [index |-> i, source |-> segments[i],
              decoded |-> read_segment(write_segment(segments[i]), 0)]
    /\ UNCHANGED <<segments, isDir, files, result, readErr, last, op, loaded, fresh,
                   compacted, nops, mutations, logVars, streamVars, engineVars, decodeVars>>

TableNext ==
    \/ \E key \in Keys, value \in Values : Insert(key, value)
    \/ \E key \in Keys : Delete(key)
    \/ Compact
    \/ Reopen
    \/ \E i \in 1..Len(segments) : RoundTrip(i)

-----------------------------------------------------------------------------
(* Log over std::io::Cursor<Vec<u8>> *)

\* the number of entries appended to a log in a behaviour
MaxAppends == 3

\* the entries the appends draw from
Entries == {<<>>, <<5>>, <<6, 7>>}

\* the length of the longest of them
MaxEntryLen == CHOOSE n \in 0..8 : /\ \E e \in Entries : Len(e) = n
                                   /\ \A e \in Entries : Len(e) <= n

Zeros(n) == [i \in 1..n |-> 0]

\* u32::to_be_bytes
to_be_bytes(n) ==
    <<(n \div 16777216) % 256, (n \div 65536) % 256, (n \div 256) % 256, n % 256>>

\* u32::from_be_bytes
from_be_bytes(b) == 16777216 * b[1] + 65536 * b[2] + 256 * b[3] + b[4]

\* bytes written at offset `at` (0-based) of a byte vector or of a file: the range is
\* overwritten, the content grows as needed, a gap before `at` is filled with zeros
WriteAt(content, at, buf) ==
    LET padded == IF at > Len(content) THEN content \o Zeros(at - Len(content))
                  ELSE content
    IN SubSeq(padded, 1, at) \o buf \o SubSeq(padded, at + Len(buf) + 1, Len(padded))

\* the bytes a read of up to n bytes at offset `at` (0-based) returns
ReadAt(content, at, n) ==
    IF at >= Len(content) THEN <<>>
    ELSE SubSeq(content, at + 1, Min(at + n, Len(content)))

\* Cursor::seek(SeekFrom::End(0))
cursor_seek_end(c) == [c EXCEPT !.pos = Len(c.inner)]

\* Cursor::seek(SeekFrom::Start(n))
cursor_seek_start(c, n) == [c EXCEPT !.pos = n]

\* Write::write_all on Cursor<Vec<u8>>: nothing is written for an empty buffer
cursor_write_all(c, buf) ==
    IF buf = <<>> THEN c
    ELSE [inner |-> WriteAt(c.inner, c.pos, buf), pos |-> c.pos + Len(buf)]

\* Read::read on Cursor<Vec<u8>> into a buffer of n bytes: [cursor, data]
cursor_read(c, n) ==
    LET data == ReadAt(c.inner, c.pos, n)
    IN [cursor |-> [c EXCEPT !.pos = c.pos + Len(data)], data |-> data]

\* Log::append on a Cursor
Log_append(c, entry) ==
    LET size_bytes == to_be_bytes(Len(entry))
    IN cursor_write_all(cursor_write_all(cursor_seek_end(c), size_bytes), entry)

\* the first n bytes of a buffer after a read stored `data` at its start
Filled(buf, data, n) == data \o SubSeq(buf, Len(data) + 1, n)

\* LogIterator::next on a Cursor: [storage, iter, item], item an Option
LogIterator_next(c, it) ==
    LET r1 == cursor_read(cursor_seek_start(c, it.position), 4)
        size_bytes == Filled(Zeros(4), r1.data, 4)
        size == from_be_bytes(size_bytes)
        buf == IF Len(it.buf) < size THEN it.buf \o Zeros(size - Len(it.buf)) ELSE it.buf
        r2 == cursor_read(r1.cursor, size)
        buf2 == Filled(buf, r2.data, Len(buf))
    IN IF Len(r1.data) = 0
       THEN [storage |-> r1.cursor, iter |-> it, item |-> None]
       ELSE IF Len(r2.data) = 0
       THEN [storage |-> r2.cursor, iter |-> [it EXCEPT !.buf = buf], item |-> None]
       ELSE [storage |-> r2.cursor,
             iter |-> [it EXCEPT !.buf = buf2, !.position = it.position + 4 + size],
             item |-> Some(SubSeq(buf2, 1, size))]

NoIterator == [active |-> FALSE, position |-> 0, buf |-> <<>>, done |-> FALSE]

\* Log::new(RefCell::new(Cursor::new(Vec::new())))
LogInit ==
    /\ storage = [inner |-> <<>>, pos |-> 0]
    /\ iter = NoIterator
    /\ yielded = <<>>
    /\ appended = <<>>
    /\ torn = FALSE
    /\ prev = None
    /\ resumed = FALSE

\* log.append(entry); a live iterator borrows the log, so none is alive here
LogAppend(entry) ==
    /\ Len(appended) < MaxAppends
    /\ ~torn
    /\ storage' = Log_append(storage, entry)
    /\ appended' = Append(appended, entry)
    /\ iter' = NoIterator
    /\ yielded' = <<>>
    /\ prev' = None
    /\ resumed' = (iter.active /\ (iter.position > 0 \/ iter.done))
    /\ UNCHANGED <<torn, tableVars, streamVars, engineVars, decodeVars>>

\* log.into_iter(): a new iterator takes the place of the one before it, if any
IntoIter ==
    /\ ~iter.active \/ iter.position > 0 \/ iter.done
    /\ iter' = [active |-> TRUE, position |-> 0, buf |-> <<>>, done |-> FALSE]
    /\ yielded' = <<>>
    /\ prev' = IF iter.done THEN Some(yielded) ELSE prev
    /\ UNCHANGED <<storage, appended, torn, resumed, tableVars, streamVars, engineVars,
                   decodeVars>>

\* iterator.next(), until it returns None
IterNext ==
    /\ iter.active
    /\ ~iter.done
    /\ LET r == LogIterator_next(storage, iter)
       IN /\ storage' = r.storage
          /\ iter' = [r.iter EXCEPT !.done = ~r.item.some]
          /\ yielded' = IF r.item.some THEN Append(yielded, r.item.v) ELSE yielded
    /\ UNCHANGED <<appended, torn, prev, resumed, tableVars, streamVars, engineVars,
                   decodeVars>>

\* the log is left with its last frame cut short by `cut` bytes, at least one byte of
\* the frame remaining (an append that stopped inside write_all), and is opened anew
Truncate(cut) ==
    /\ ~torn
    /\ appended # <<>>
    /\ cut < 4 + Len(appended[Len(appended)])
    /\ storage' = [inner |-> SubSeq(storage.inner, 1, Len(storage.inner) - cut),
                   pos |-> 0]
    /\ appended' = SubSeq(appended, 1, Len(appended) - 1)
    /\ torn' = TRUE
    /\ iter' = NoIterator
    /\ yielded' = <<>>
    /\ prev' = None
    /\ UNCHANGED <<resumed, tableVars, streamVars, engineVars, decodeVars>>

LogNext ==
    \/ \E entry \in Entries : LogAppend(entry)
    \/ IntoIter
    \/ IterNext

-----------------------------------------------------------------------------
(* FileSegmentStream *)

\* the number of stream calls in a behaviour
MaxStreamOps == 5

\* the buffers the writes draw from
Buffers == {<<1, 2>>, <<3, 4, 5>>}

\* the max_segment_size values a stream is constructed with
SegmentSizes == {1, 4}

\* the seek targets the calls draw from
SeekTargets ==
    {[from |-> "Start", n |-> n] : n \in {0, 1, 3}}
        \cup {[from |-> "End", n |-> n] : n \in {-20, -1}}
        \cup {[from |-> "Current", n |-> n] : n \in {-4, 1}}

\* the lengths of the buffers the reads fill
ReadSizes == {2, 4}

\* format!("{}.log", self.segments.len())
log_filename(index) == to_string(index) \o <<".", "l", "o", "g">>

\* OpenOptions::new().read(true).write(true).create(true).truncate(true).open(..)
new_file(name) == [name |-> name, content |-> <<>>, cursor |-> 0]

\* Segment::new
Segment_new(file, start) == [file |-> file, start |-> start, end |-> start]

\* Segment::size is end - start in u64: with end < start the subtraction overflows,
\* which panics where overflow checks are on and wraps to a huge value where not
Segment_size_overflows(segment) == segment.end < segment.start

\* segment.size() > max_segment_size, where size() does not panic
Segment_size_exceeds(segment, max) ==
    Segment_size_overflows(segment) \/ segment.end - segment.start > max

\* File::write_all at the file's cursor
file_write_all(f, buf) ==
    IF buf = <<>> THEN f
    ELSE [f EXCEPT !.content = WriteAt(f.content, f.cursor, buf),
                   !.cursor = f.cursor + Len(buf)]

\* FileSegmentStream::write: the stream after the call; checks says whether the build
\* has overflow checks, and a panicking call leaves the stream marked panicked
FileSegmentStream_write(st, buf, checks) ==
    LET size == Len(buf)
        current_pos == st.position
        n == Len(st.segments)
        rotate == n = 0 \/ Segment_size_exceeds(st.segments[n], st.max_segment_size)
        segs == IF rotate
                THEN Append(st.segments, Segment_new(new_file(log_filename(n)), current_pos))
                ELSE st.segments
        m == Len(segs)
        tail == [file |-> file_write_all(segs[m].file, buf),
                 start |-> segs[m].start,
                 end |-> current_pos + size]
    IN IF n > 0 /\ checks /\ Segment_size_overflows(st.segments[n])
       THEN [st EXCEPT !.panicked = TRUE]
       ELSE [st EXCEPT !.segments = [segs EXCEPT ![m] = tail],
                       !.position = st.position + size]

\* the sum of the sizes of the segments, in wrapping u64 arithmetic read back as i64
RECURSIVE total_size(_)
total_size(segs) ==
    IF segs = <<>> THEN 0
    ELSE total_size(SubSeq(segs, 1, Len(segs) - 1))
            + (segs[Len(segs)].end - segs[Len(segs)].start)

\* FileSegmentStream::seek: [stream, ok]
FileSegmentStream_seek(st, pos, checks) ==
    IF pos.from = "Start"
    THEN [stream |-> [st EXCEPT !.position = pos.n], ok |-> TRUE]
    ELSE IF pos.from = "End"
    THEN IF checks /\ \E i \in 1..Len(st.segments) : Segment_size_overflows(st.segments[i])
         THEN [stream |-> [st EXCEPT !.panicked = TRUE], ok |-> FALSE]
         ELSE IF total_size(st.segments) + pos.n < 0
         THEN [stream |-> st, ok |-> FALSE]
         ELSE [stream |-> [st EXCEPT !.position = total_size(st.segments) + pos.n],
               ok |-> TRUE]
    ELSE IF st.position + pos.n < 0
    THEN [stream |-> st, ok |-> FALSE]
    ELSE [stream |-> [st EXCEPT !.position = st.position + pos.n], ok |-> TRUE]

\* the comparator FileSegmentStream::read hands to binary_search_by
segment_cmp(segment, position) ==
    IF position < segment.start THEN 2
    ELSE IF position >= segment.end THEN 0
    ELSE 1

\* the outcomes of binary_search_by: an index whose segment compares Equal, or 0 for
\* Err; on a list the comparator does not order the result is unspecified
binary_search(segs, position) ==
    LET equal == {i \in 1..Len(segs) : segment_cmp(segs[i], position) = 1}
        ordered == \A i, j \in 1..Len(segs) :
                       i < j => segment_cmp(segs[i], position) <= segment_cmp(segs[j], position)
    IN IF ordered THEN (IF equal = {} THEN {0} ELSE equal) ELSE equal \cup {0}

\* the loop of FileSegmentStream::read: [segments, data]
RECURSIVE read_loop_fss(_, _, _, _, _, _)
read_loop_fss(segs, position, segment_index, current_segment, n, data) ==
    IF ~(Len(data) < n /\ current_segment <= Len(segs))
    THEN [segments |-> segs, data |-> data]
    ELSE LET segment == segs[current_segment]
             offset == IF current_segment = segment_index
                       THEN position - segment.start ELSE 0
             got == ReadAt(segment.file.content, offset, n - Len(data))
             moved == [segs EXCEPT ![current_segment].file.cursor = offset + Len(got)]
         IN IF Len(got) = 0
            THEN IF current_segment + 1 <= Len(segs)
                 THEN read_loop_fss(moved, position, segment_index,
                                    current_segment + 1, n, data)
                 ELSE [segments |-> moved, data |-> data]
            ELSE read_loop_fss(moved, position, segment_index,
                               current_segment, n, data \o got)

\* a read that moves the logical cursor past the bytes it returns
FileSegmentStream_read_advancing(st, n, segment_index) ==
    IF st.segments = <<>> \/ segment_index = 0
    THEN [stream |-> st, data |-> <<>>]
    ELSE LET r == read_loop_fss(st.segments, st.position, segment_index,
                                segment_index, n, <<>>)
         IN [stream |-> [st EXCEPT !.segments = r.segments,
                                   !.position = st.position + Len(r.data)],
             data |-> r.data]

\* FileSegmentStream::read into a buffer of n bytes, the binary search having
\* returned segment_index (0 for Err): [stream, data]
FileSegmentStream_read(st, n, segment_index) ==
    IF st.segments = <<>> \/ segment_index = 0
    THEN [stream |-> st, data |-> <<>>]
    ELSE LET r == read_loop_fss(st.segments, st.position, segment_index,
                                segment_index, n, <<>>)
         IN [stream |-> [st EXCEPT !.segments = r.segments], data |-> r.data]


NoRead == [done |-> FALSE, at |-> 0, n |-> 0, data |-> <<>>]

NoCall == [op |-> "new", from |-> "", n |-> 0, buf |-> <<>>]

\* FileSegmentStream::new(root, max_segment_size)
FileSegmentStream_new(max_segment_size) ==
    [segments |-> <<>>, position |-> 0, max_segment_size |-> max_segment_size,
     panicked |-> FALSE]

StreamInit ==
    /\ stream \in {FileSegmentStream_new(m) : m \in SegmentSizes}
    /\ overflowChecks \in BOOLEAN
    /\ sresult = "Ok"
    /\ scall = NoCall
    /\ readOut = NoRead
    /\ written = <<>>
    /\ phase = "writes"
    /\ sops = 0

\* stream.write(buf)
Write(buf) ==
    /\ sops < MaxStreamOps
    /\ ~stream.panicked
    /\ stream' = FileSegmentStream_write(stream, buf, overflowChecks)
    /\ sresult' = IF stream'.panicked THEN "panic" ELSE "Ok"
    /\ scall' = [NoCall EXCEPT !.op = "write", !.buf = buf]
    /\ written' = IF stream'.panicked THEN written ELSE written \o buf
    /\ phase' = IF phase = "writes" /\ ~stream'.panicked THEN "writes" ELSE "mixed"
    /\ readOut' = NoRead
    /\ sops' = sops + 1
    /\ UNCHANGED <<overflowChecks, tableVars, logVars, engineVars, decodeVars>>

\* stream.seek(pos)
Seek(pos) ==
    /\ sops < MaxStreamOps
    /\ ~stream.panicked
    /\ LET r == FileSegmentStream_seek(stream, pos, overflowChecks)
       IN /\ stream' = r.stream
          /\ sresult' = IF r.stream.panicked THEN "panic"
                        ELSE IF r.ok THEN "Ok" ELSE "InvalidInput"
          /\ phase' = IF phase \in {"writes", "seeks"} /\ r.ok THEN "seeks" ELSE "mixed"
    /\ scall' = [NoCall EXCEPT !.op = "seek", !.from = pos.from, !.n = pos.n]
    /\ readOut' = NoRead
    /\ sops' = sops + 1
    /\ UNCHANGED <<overflowChecks, written, tableVars, logVars, engineVars, decodeVars>>

\* stream.read(&mut buf) with buf.len() = n
Read(n) ==
    /\ sops < MaxStreamOps
    /\ ~stream.panicked
    /\ \E segment_index \in binary_search(stream.segments, stream.position) :
          LET r == FileSegmentStream_read(stream, n, segment_index)
          IN /\ stream' = r.stream
             /\ readOut' = [done |-> TRUE, at |-> stream.position, n |-> n,
                            data |-> r.data]
    /\ sresult' = "Ok"
    /\ scall' = [NoCall EXCEPT !.op = "read", !.n = n]
    /\ phase' = IF phase = "seeks" THEN "read" ELSE "mixed"
    /\ sops' = sops + 1
    /\ UNCHANGED <<overflowChecks, written, tableVars, logVars, engineVars, decodeVars>>

StreamNext ==
    \/ \E buf \in Buffers : Write(buf)
    \/ \E pos \in SeekTargets : Seek(pos)
    \/ \E n \in ReadSizes : Read(n)

-----------------------------------------------------------------------------
(* Log over a FileSegmentStream *)

\* Write::write_all on the stream: write is called once, and not for an empty buffer
fss_write_all(st, buf, checks) ==
    IF buf = <<>> \/ st.panicked THEN st ELSE FileSegmentStream_write(st, buf, checks)

\* Log::append on the stream; a seek that fails or panics ends the call
Log_append_fss(st, entry, checks) ==
    LET size_bytes == to_be_bytes(Len(entry))
        sk == FileSegmentStream_seek(st, [from |-> "End", n |-> 0], checks)
    IN IF ~sk.ok THEN sk.stream
       ELSE fss_write_all(fss_write_all(sk.stream, size_bytes, checks), entry, checks)

\* LogIterator::next on the stream, i1 and i2 being what the binary searches of the
\* two reads return: [stream, iter, item]
LogIterator_next_fss(st, it, i1, i2) ==
    LET sk == FileSegmentStream_seek(st, [from |-> "Start", n |-> it.position], FALSE)
        r1 == FileSegmentStream_read(sk.stream, 4, i1)
        size_bytes == Filled(Zeros(4), r1.data, 4)
        size == from_be_bytes(size_bytes)
        buf == IF Len(it.buf) < size THEN it.buf \o Zeros(size - Len(it.buf)) ELSE it.buf
        r2 == FileSegmentStream_read(r1.stream, size, i2)
        buf2 == Filled(buf, r2.data, Len(buf))
    IN IF Len(r1.data) = 0
       THEN [stream |-> r1.stream, iter |-> it, item |-> None]
       ELSE IF Len(r2.data) = 0
       THEN [stream |-> r2.stream, iter |-> [it EXCEPT !.buf = buf], item |-> None]
       ELSE [stream |-> r2.stream,
             iter |-> [it EXCEPT !.buf = buf2, !.position = it.position + 4 + size],
             item |-> Some(SubSeq(buf2, 1, size))]

\* the same entry is appended to the log over the stream and to a log over a cursor
FileLogAppend(entry) ==
    /\ Len(appended) < MaxAppends
    /\ ~stream.panicked
    /\ stream' = Log_append_fss(stream, entry, overflowChecks)
    /\ storage' = Log_append(storage, entry)
    /\ appended' = Append(appended, entry)
    /\ iter' = NoIterator
    /\ yielded' = <<>>
    /\ prev' = None
    /\ resumed' = (iter.active /\ (iter.position > 0 \/ iter.done))
    /\ UNCHANGED <<torn, overflowChecks, sresult, scall, readOut, written, phase, sops,
                   tableVars, engineVars, decodeVars>>

\* into_iter() on the log over the stream
FileLogIntoIter ==
    /\ ~stream.panicked
    /\ ~iter.active \/ iter.position > 0 \/ iter.done
    /\ iter' = [active |-> TRUE, position |-> 0, buf |-> <<>>, done |-> FALSE]
    /\ yielded' = <<>>
    /\ prev' = IF iter.done THEN Some(yielded) ELSE prev
    /\ UNCHANGED <<storage, appended, torn, resumed, streamVars, tableVars, engineVars,
                   decodeVars>>

\* next() on the iterator of the log over the stream, until it returns None
FileLogIterNext ==
    /\ iter.active
    /\ ~iter.done
    /\ \E i1 \in binary_search(stream.segments, iter.position) :
       \E i2 \in binary_search(stream.segments, iter.position) :
          LET r == LogIterator_next_fss(stream, iter, i1, i2)
          IN /\ stream' = r.stream
             /\ iter' = [r.iter EXCEPT !.done = ~r.item.some]
             /\ yielded' = IF r.item.some THEN Append(yielded, r.item.v) ELSE yielded
    /\ UNCHANGED <<storage, appended, torn, prev, resumed, overflowChecks, sresult, scall,
                   readOut, written, phase, sops, tableVars, engineVars, decodeVars>>

FileLogNext ==
    \/ \E entry \in Entries : FileLogAppend(entry)
    \/ FileLogIntoIter
    \/ FileLogIterNext

-----------------------------------------------------------------------------
(* StorageEngine (spec.md 4.4): a write-ahead log coupled with the table *)

\* the values the engine calls draw from: one byte, and one that overflows a segment
EngineValues == {<<7>>, filler}

\* table.latestSerial()
latestSerial(segs) == segs[Len(segs)].serial

\* the WAL record of a mutation: serial, opcode, key and the optional value
wal_record(serial, opcode, key, value) ==
    [serial |-> serial, opcode |-> opcode, key |-> key, value |-> value]

\* the entry a WAL record writes: the value of an Insert, a tombstone of a Delete
record_entry(rec) == IF rec.opcode = "Insert" THEN Some(rec.value) ELSE None

\* the first half of a mutation in which a failed WAL append still mutates the table
Engine_log_applying(opcode, key, value, ok) ==
    /\ epc = "idle"
    /\ nops < MaxOps
    /\ IF ok
       THEN /\ wal' = Append(wal, wal_record(latestSerial(segments) + 1, opcode, key, value))
            /\ epc' = "logged"
            /\ eresult' = "Pending"
            /\ UNCHANGED segments
       ELSE /\ eresult' = "IOError"
            /\ segments' = IF opcode = "Insert"
                           THEN SSTable_insert(segments, isDir, files, key, value).segments
                           ELSE SSTable_delete(segments, key)
            /\ UNCHANGED <<wal, epc>>
    /\ UNCHANGED <<isDir, files, result, readErr, last, op, loaded, fresh, compacted, nops,
                   mutations, rt, logVars, streamVars, decodeVars>>

\* engine.insert / engine.delete, first half: serial = table.latestSerial() + 1, the
\* record is encoded, appended to the WAL and flushed; a failed append returns its error
Engine_log(opcode, key, value, ok) ==
    /\ epc = "idle"
    /\ nops < MaxOps
    /\ IF ok
       THEN /\ wal' = Append(wal, wal_record(latestSerial(segments) + 1, opcode, key, value))
            /\ epc' = "logged"
            /\ eresult' = "Pending"
       ELSE /\ eresult' = "IOError"
            /\ UNCHANGED <<wal, epc>>
    /\ UNCHANGED <<tableVars, logVars, streamVars, decodeVars>>

\* engine.insert / engine.delete, second half: the mutation just logged is applied
\* to the table
Engine_apply ==
    /\ epc = "logged"
    /\ LET rec == wal[Len(wal)]
           r == IF rec.opcode = "Insert"
                THEN SSTable_insert(segments, isDir, files, rec.key, rec.value)
                ELSE [segments |-> SSTable_delete(segments, rec.key), files |-> files,
                      result |-> "Ok"]
       IN /\ segments' = r.segments
          /\ files' = r.files
          /\ result' = r.result
          /\ eresult' = r.result
          /\ last' = [last EXCEPT ![rec.key] = record_entry(rec)]
          /\ op' = IF rec.opcode = "Insert" THEN "insert" ELSE "delete"
    /\ epc' = "idle"
    /\ nops' = nops + 1
    /\ mutations' = mutations + 1
    /\ rt' = NoRoundTrip
    /\ UNCHANGED <<wal, isDir, readErr, loaded, fresh, compacted, logVars, streamVars,
                   decodeVars>>

\* StorageEngine::open on the same root: the table recovers from its directory and
\* the log starts fresh, without replay
Engine_open ==
    /\ nops < MaxOps
    /\ Construct
    /\ wal' = <<>>
    /\ epc' = "idle"
    /\ eresult' = "Ok"
    /\ UNCHANGED decodeVars

EngineNext ==
    \/ \E key \in Keys, value \in EngineValues, ok \in BOOLEAN :
           Engine_log("Insert", key, value, ok)
    \/ \E key \in Keys, ok \in BOOLEAN : Engine_log("Delete", key, <<>>, ok)
    \/ Engine_apply
    \/ Engine_open

-----------------------------------------------------------------------------
(* SSTable::read_segment over inputs that end anywhere *)

\* the lists of (key, value) records whose encodings the inputs are cut from: a live
\* entry and a tombstone; a key that is not UTF-8 (tests::test_read_segment_invalid_utf8);
\* an empty key and a value that holds a zero byte; a key of two UTF-8 bytes and the
\* first of those bytes alone
RecordLists ==
    {<<[key |-> <<97>>, value |-> <<7>>], [key |-> <<98, 98>>, value |-> <<>>]>>,
     <<[key |-> <<255, 255>>, value |-> <<>>]>>,
     <<[key |-> <<>>, value |-> <<0, 97>>], [key |-> <<97>>, value |-> <<5, 6>>]>>,
     <<[key |-> <<195, 169>>, value |-> <<9>>], [key |-> <<195>>, value |-> <<>>]>>}

\* the initial serials read_segment is called with
InitialSerials == {0, 3}

\* one record as write_segment lays it out: key, 0, length (u32 LE), value
encode_record(rec) == rec.key \o <<0>> \o to_le_bytes(Len(rec.value)) \o rec.value

RECURSIVE encode_records(_)
encode_records(recs) ==
    IF recs = <<>> THEN <<>>
    ELSE encode_record(Head(recs)) \o encode_records(Tail(recs))

\* the bytes the reader holds
input_bytes(in) == SubSeq(encode_records(in.records), 1, in.cut)

NotDecoded == [done |-> FALSE, r |-> read_segment(<<>>, 0)]

DecodeInit ==
    /\ \E recs \in RecordLists, serial \in InitialSerials :
           \E cut \in 0..Len(encode_records(recs)) :
               input = [records |-> recs, cut |-> cut, serial |-> serial]
    /\ decoded = NotDecoded

\* SSTable::read_segment(&mut reader, initial_serial)
Decode ==
    /\ ~decoded.done
    /\ decoded' = [done |-> TRUE, r |-> read_segment(input_bytes(input), input.serial)]
    /\ UNCHANGED <<input, tableVars, logVars, streamVars, engineVars>>

DecodeNext == Decode

-----------------------------------------------------------------------------
(* Specifications *)

\* a component that takes no step in a specification stays as constructed
LogIdle == LogInit

StreamIdle ==
    /\ stream = FileSegmentStream_new(0)
    /\ overflowChecks = FALSE
    /\ sresult = "Ok"
    /\ scall = NoCall
    /\ readOut = NoRead
    /\ written = <<>>
    /\ phase = "writes"
    /\ sops = 0

TableIdle == TableInit

EngineIdle ==
    /\ wal = <<>>
    /\ epc = "idle"
    /\ eresult = "Ok"

DecodeIdle ==
    /\ input = [records |-> <<>>, cut |-> 0, serial |-> 0]
    /\ decoded = NotDecoded

\* the table
Init == TableInit /\ LogIdle /\ StreamIdle /\ EngineIdle /\ DecodeIdle
Next == TableNext
Spec == Init /\ [][Next]_vars

\* the log over an in-memory cursor
InitLog == TableIdle /\ LogInit /\ StreamIdle /\ EngineIdle /\ DecodeIdle
NextLog == LogNext
SpecLog == InitLog /\ [][NextLog]_vars

\* the log over an in-memory cursor whose last frame may be cut short
NextTorn ==
    \/ LogNext
    \/ \E cut \in 1..(3 + MaxEntryLen) : Truncate(cut)
SpecTorn == InitLog /\ [][NextTorn]_vars

\* the log over a segmented file stream, next to a log over an in-memory cursor
InitFileLog == TableIdle /\ LogInit /\ StreamInit /\ EngineIdle /\ DecodeIdle
NextFileLog == FileLogNext
SpecFileLog == InitFileLog /\ [][NextFileLog]_vars

\* the segmented file stream
InitStream == TableIdle /\ LogIdle /\ StreamInit /\ EngineIdle /\ DecodeIdle
NextStream == StreamNext
SpecStream == InitStream /\ [][NextStream]_vars

\* tests::test_segment_chaining: &filler()[..SEGMENT_SIZE_LIMIT/2]
half_filler == [i \in 1..(SEGMENT_SIZE_LIMIT \div 2) |-> 0]

\* values of one byte and of half a segment
ChainValues == {<<7>>, half_filler}

\* the table under inserts of values that fill half a segment, deletes and compact
NextChain ==
    \/ \E key \in Keys, value \in ChainValues : Insert(key, value)
    \/ \E key \in Keys : Delete(key)
    \/ Compact
SpecChain == Init /\ [][NextChain]_vars

\* the storage engine over a table on an empty directory and an empty log
InitEngine == TableInit /\ LogIdle /\ StreamIdle /\ EngineIdle /\ DecodeIdle
NextEngine == EngineNext
SpecEngine == InitEngine /\ [][NextEngine]_vars

\* the table whose directory may go away, so that the write of a sealed segment fails
NextFail ==
    \/ \E key \in Keys, value \in Values : Insert(key, value)
    \/ \E key \in Keys : Delete(key)
    \/ Compact
    \/ RemoveDirectory
SpecFail == Init /\ [][NextFail]_vars

\* read_segment on its own, over inputs cut anywhere
InitDecode == TableIdle /\ LogIdle /\ StreamIdle /\ EngineIdle /\ DecodeInit
NextDecode == DecodeNext
SpecDecode == InitDecode /\ [][NextDecode]_vars

\* the table with its private write called from outside, as the tests call it
NextPersist ==
    \/ \E key \in Keys, value \in Values : Insert(key, value)
    \/ \E key \in Keys : Delete(key)
    \/ Compact
    \/ Reopen
    \/ Persist
SpecPersist == Init /\ [][NextPersist]_vars

\* table construction over the directories a caller can hand to try_new
FileNames ==
    {<<"1", ".", "s", "s", "t">>, <<"2", ".", "s", "s", "t">>,
     <<"x", ".", "s", "s", "t">>, <<"1", ".", "l", "o", "g">>}

\* one live entry; the same cut inside the length field; a key that is not UTF-8
\* (tests::test_read_segment_invalid_utf8); an empty file
FileContents == {<<97, 0, 1, 0, 0, 0, 7>>, <<97, 0, 1, 0, 0>>, <<255, 255, 0>>, <<>>}

Directories == UNION {[S -> FileContents] : S \in SUBSET FileNames}

InitOpen ==
    /\ isDir \in BOOLEAN
    /\ files \in Directories
    /\ ~isDir => files = EmptyMap
    /\ segments = <<>>
    /\ result = "Ok"
    /\ readErr = "none"
    /\ last = [k \in Keys |-> None]
    /\ op = "none"
    /\ loaded = 0
    /\ fresh = FALSE
    /\ compacted = FALSE
    /\ nops = 0
    /\ mutations = 0
    /\ rt = NoRoundTrip
    /\ LogIdle
    /\ StreamIdle
    /\ EngineIdle
    /\ DecodeIdle

\* SSTable::try_new(path)
Open ==
    /\ op = "none"
    /\ Construct
    /\ UNCHANGED <<engineVars, decodeVars>>

NextOpen == Open
SpecOpen == InitOpen /\ [][NextOpen]_vars


-----------------------------------------------------------------------------
(* Properties of the table *)

\* C1: whatever inserts and deletes were called on a table (rotations included),
\* get(key) is the value of the last insert of the key, present also when empty,
\* and none when the last write was a delete or the key was never written.
C1_GetReflectsLastWrite ==
    \A k \in Keys : SSTable_get(segments, k) = last[k]

\* a key written in a sealed segment and rewritten with an empty value in the tail
C1_Witness ==
    /\ op = "insert"
    /\ fresh
    /\ Len(segments) >= 2
    /\ \E k \in Keys :
          /\ k \in DOMAIN segments[1].data
          /\ k \in DOMAIN segments[Len(segments)].data
          /\ segments[1].data[k] # segments[Len(segments)].data[k]
          /\ last[k] = Some(<<>>)
          /\ SSTable_get(segments, k) = Some(<<>>)

\* the segments of a table but the tail
Sealed(segs) == SubSeq(segs, 1, Len(segs) - 1)

\* C2: a second table constructed on the directory of a table that was built over
\* an empty directory and took inserts and deletes loads every sealed segment with
\* the entries it has in memory, so get on it is the latest write the sealed
\* segments record.
C2_RecoveryFromDisk ==
    [][(op' = "try_new" /\ nops' = nops + 1 /\ fresh /\ ~compacted) =>
          /\ loaded' = Len(Sealed(segments))
          /\ \A i \in 1..Len(Sealed(segments)) :
                i <= Len(segments') /\ segments'[i].data = segments[i].data
          /\ \A k \in Keys :
                SSTable_get(segments', k) = SSTable_get(Sealed(segments), k)]_vars

\* C3: for every key, get returns the same right before and right after compact.
C3_CompactReadFixedPoint ==
    [][(op' = "compact" /\ nops' = nops + 1) =>
          \A k \in Keys : SSTable_get(segments', k) = SSTable_get(segments, k)]_vars

\* after a compact: a deleted key whose tombstone was merged, and a live key
C3_Witness ==
    /\ op = "compact"
    /\ \E k \in Keys :
          /\ last[k] = None
          /\ \E i \in 1..Len(segments) : k \in DOMAIN segments[i].data
    /\ \E k \in Keys : last[k].some /\ SSTable_get(segments, k) = last[k]

\* C6: write_segment then read_segment gives back the segment's mapping: the same
\* keys, live values live with the same bytes, tombstones still tombstones.
C6_RoundTripMapping ==
    rt.index # 0 => rt.decoded.ok /\ rt.decoded.segment.data = rt.source.data

\* C7: write_segment then read_segment gives back a segment of the same size.
C7_RoundTripSize ==
    rt.index # 0 => rt.decoded.ok /\ rt.decoded.segment.size = rt.source.size

\* every file, decoded with the serial of the file before it as the seed, ends on
\* the serial of its name
RECURSIVE SerialsRederive(_, _, _)
SerialsRederive(entries, fs, serial) ==
    IF entries = <<>> THEN TRUE
    ELSE LET r == read_segment(fs[Head(entries)], serial)
         IN /\ r.ok
            /\ r.segment.serial = parse_serial(Head(entries)).v
            /\ SerialsRederive(Tail(entries), fs, r.segment.serial)

\* C8: the files a table wrote during inserts and deletes decode, each seeded with
\* the serial of the file before it (0 for the first), to the serial in their name.
C8_SerialsRederivable ==
    (fresh /\ ~compacted) => SerialsRederive(sort_by_serial(DOMAIN files), files, 0)

\* C9: a table constructed over k loaded segments has k + 1 segments, the last a
\* new empty one seeded with the last loaded serial (0 when none), and the tail
\* that inserts and deletes modify is never a loaded segment.
C9_FreshOpenSegment ==
    /\ op = "try_new" =>
          /\ Len(segments) = loaded + 1
          /\ segments[Len(segments)].data = EmptyMap
          /\ segments[Len(segments)].size = 0
          /\ segments[Len(segments)].serial =
                (IF loaded = 0 THEN 0 ELSE segments[loaded].serial)
    /\ ~compacted => Len(segments) > loaded

\* C10: construction fails with invalid-input when the root is no directory or a
\* file lacks the sst extension or a numeric stem, and with invalid-data when a
\* file fails to decode or its terminal serial differs from its name.
C10_ConstructionFails ==
    LET BadRoot == ~isDir
        BadName == \E n \in DOMAIN files :
                      extension(n) # Some(<<"s", "s", "t">>) \/ ~parse_serial(n).some
    IN op = "try_new" =>
          /\ (BadRoot \/ BadName) => result = "InvalidInput"
          /\ (~BadRoot /\ ~BadName /\ readErr # "none") => result = "InvalidData"

C12_IdempotentPersistence ==
    [][(op' \in {"write", "write_again"} /\ nops' = nops + 1) =>
          /\ result' = "Ok"
          /\ \A n \in DOMAIN files : n \in DOMAIN files' /\ files'[n] = files[n]
          /\ \A n \in (DOMAIN files') \ (DOMAIN files) :
                \E i \in 1..(Len(segments) - 1) :
                   /\ n = sst_filename(segments[i].serial)
                   /\ files'[n] = write_segment(segments[i])
          /\ op' = "write_again" => files' = files]_vars

\* a second write after a compact whose sealed segment the first write stored
C12_Witness ==
    /\ op = "write_again"
    /\ compacted
    /\ Len(segments) >= 2
    /\ \A i \in 1..(Len(segments) - 1) :
          sst_filename(segments[i].serial) \in DOMAIN files
    /\ \E i \in 1..(Len(segments) - 1) :
          files[sst_filename(segments[i].serial)] = write_segment(segments[i])

\* C13: when a key is present in more than one segment of a table that took
\* inserts and deletes, compact leaves no more segments than there were.
C13_CompactSegmentCount ==
    [][(op' = "compact" /\ nops' = nops + 1 /\ fresh /\ ~compacted
          /\ \E k \in Keys : \E i, j \in 1..Len(segments) :
                i # j /\ k \in DOMAIN segments[i].data /\ k \in DOMAIN segments[j].data)
       => Len(segments') <= Len(segments)]_vars

\* C20: after an insert, a delete or a compact has returned, every segment but the
\* tail has its file, named by its serial, in the directory of the table.
C20_SealedSegmentsPersisted ==
    op \in {"insert", "delete", "compact"} =>
        \A i \in 1..(Len(segments) - 1) :
            sst_filename(segments[i].serial) \in DOMAIN files

\* C21 as stated: each segment's serial is strictly greater than the serial of the
\* segment before it.
C21_SerialsStrictlyIncrease ==
    \A i \in 2..Len(segments) : segments[i].serial > segments[i - 1].serial

\* C21: along the segment sequence the serials never decrease, and a segment that
\* holds entries has a serial strictly greater than the segment before it; a
\* segment without entries has the serial of the segment before it.
C21_SerialsIncreaseButEmpty ==
    \A i \in 2..Len(segments) :
        /\ segments[i].serial >= segments[i - 1].serial
        /\ segments[i].data # EmptyMap => segments[i].serial > segments[i - 1].serial
        /\ segments[i].data = EmptyMap => segments[i].serial = segments[i - 1].serial

C21_Witness ==
    /\ op = "insert"
    /\ compacted
    /\ Len(segments) >= 2
    /\ segments[Len(segments)].data # EmptyMap
    /\ segments[Len(segments)].serial > segments[Len(segments) - 1].serial

\* C22: a compact step leaves the directory as it is: the same file names with the
\* same contents before and after, whatever segments the compact replaced or built.
C22_CompactLeavesFiles ==
    [][(op' = "compact" /\ nops' = nops + 1) => (files' = files /\ isDir' = isDir)]_vars

C22_Witness ==
    /\ op = "compact"
    /\ files # EmptyMap
    /\ \E i \in 1..(Len(segments) - 1) : sst_filename(segments[i].serial) \notin DOMAIN files
    /\ \E n \in DOMAIN files : \A i \in 1..Len(segments) : sst_filename(segments[i].serial) # n

\* C24: an insert or a delete leaves every segment before the tail as it was
\* (entries, size and serial); the list grows by at most one segment, a new tail
\* without entries that only an insert appends; and after every operation the list
\* holds at least one segment.
C24_OnlyTailChanges ==
    [][/\ Len(segments') >= 1
       /\ (op' \in {"insert", "delete"} /\ nops' = nops + 1)
            => /\ \A i \in 1..(Len(segments) - 1) : segments'[i] = segments[i]
               /\ Len(segments') \in {Len(segments), Len(segments) + 1}
               /\ Len(segments') = Len(segments) + 1
                    => /\ op' = "insert"
                       /\ segments'[Len(segments')].data = EmptyMap
                       /\ segments'[Len(segments')].size = 0
                       /\ segments'[Len(segments)].data # EmptyMap]_vars

C24_Witness ==
    /\ op = "delete"
    /\ Len(segments) >= 3
    /\ \A i \in 1..(Len(segments) - 1) : segments[i].data # EmptyMap
    /\ segments[Len(segments)].data # EmptyMap

\* C25: an insert or a delete raises the serial of the tail segment by exactly one,
\* whether or not the insert seals the tail; and on a table constructed over an
\* empty directory that has not been compacted, the serial of the tail is the
\* number of insert and delete calls made on it.
C25_SerialCountsMutations ==
    [][/\ (op' \in {"insert", "delete"} /\ nops' = nops + 1)
            => segments'[Len(segments')].serial = segments[Len(segments)].serial + 1
       /\ (fresh' /\ ~compacted')
            => segments'[Len(segments')].serial = mutations']_vars

C25_Witness ==
    /\ op = "insert"
    /\ fresh
    /\ ~compacted
    /\ mutations = 3
    /\ Len(segments) >= 2
    /\ segments[Len(segments)].data = EmptyMap
    /\ \E key \in Keys : key \in DOMAIN segments[1].data /\ ~segments[1].data[key].some

\* the keys some segment of segs holds an entry for, tombstones included
WrittenKeys(segs) == UNION {DOMAIN segs[i].data : i \in 1..Len(segs)}

\* C26: after a compact step every key that some segment held an entry for is in
\* exactly one segment of the new sequence, with the entry the last segment that
\* held it had (a tombstone stays a tombstone), no other key is there, and every key
\* of a segment is below every key of the segments after it.
C26_CompactKeepsLatestWrites ==
    [][(op' = "compact" /\ nops' = nops + 1)
        => /\ WrittenKeys(segments') = WrittenKeys(segments)
           /\ \A key \in WrittenKeys(segments) :
                  /\ Cardinality({i \in 1..Len(segments') :
                                     key \in DOMAIN segments'[i].data}) = 1
                  /\ \A i \in 1..Len(segments') :
                         key \in DOMAIN segments'[i].data
                             => segments'[i].data[key] = SSTable_get(segments, key)
           /\ \A i \in 1..Len(segments'), j \in 1..Len(segments') :
                  i < j => \A k1 \in DOMAIN segments'[i].data,
                              k2 \in DOMAIN segments'[j].data : LexLess(k1, k2)]_vars

C26_Witness ==
    /\ op = "compact"
    /\ Len(segments) >= 2
    /\ WrittenKeys(segments) = Keys
    /\ segments[1].data # EmptyMap
    /\ segments[2].data # EmptyMap
    /\ \E key \in Keys : ~SSTable_get(segments, key).some

\* the key length plus the live value length, summed over the entries of data
\* whose keys are in keys
RECURSIVE entry_bytes(_, _)
entry_bytes(keys, data) ==
    IF keys = {} THEN 0
    ELSE LET key == CHOOSE k \in keys : TRUE
         IN Len(key) + (IF data[key].some THEN Len(data[key].v) ELSE 0)
                + entry_bytes(keys \ {key}, data)

\* C27: on a table constructed over an empty directory, where every segment was
\* built by insert and delete calls, the size of each segment is the sum over its
\* entries of the key length plus the live value length, a tombstone counting its
\* key only; in particular no size is below zero.
C27_SizeAccounting ==
    fresh => \A i \in 1..Len(segments) :
                 /\ segments[i].size >= 0
                 /\ segments[i].size = entry_bytes(DOMAIN segments[i].data, segments[i].data)

\* C28: an insert returns an error exactly when it seals the tail while the
\* directory is gone; the effects of that insert stay all the same: get returns what
\* was inserted, the sealed segment holds it with its serial raised by one, the new
\* empty tail is appended with that serial, and no file of the sealed segment
\* exists.
C28_NoRollbackOnFailedSeal ==
    [][(op' = "insert" /\ nops' = nops + 1)
        => LET n == Len(segments)
           IN /\ result' # "Ok" <=> (~isDir /\ Len(segments') = n + 1)
              /\ result' # "Ok"
                   => /\ result' = "InvalidInput"
                      /\ \A key \in Keys : SSTable_get(segments', key) = last'[key]
                      /\ \E key \in DOMAIN segments'[n].data :
                             /\ segments'[n].data[key].some
                             /\ segments'[n].data[key] = last'[key]
                      /\ segments'[n].serial = segments[n].serial + 1
                      /\ segments'[n].size > SEGMENT_SIZE_LIMIT
                      /\ segments'[n + 1] = SSTableSegment_new(segments'[n].serial)
                      /\ files' = files
                      /\ sst_filename(segments'[n].serial) \notin DOMAIN files']_vars

C28_Witness ==
    /\ op = "insert"
    /\ result = "InvalidInput"
    /\ ~isDir
    /\ Len(segments) >= 3
    /\ segments[Len(segments)].data = EmptyMap

\* C30: a compact step leaves the serial of the tail at the serial of the old tail
\* plus the number of distinct keys the segments held, and no insert, delete or
\* compact step lowers the serial of the tail.
C30_CompactRaisesSerial ==
    [][/\ (op' = "compact" /\ nops' = nops + 1)
            => segments'[Len(segments')].serial =
                   segments[Len(segments)].serial + Cardinality(WrittenKeys(segments))
       /\ (op' \in {"insert", "delete", "compact"} /\ nops' = nops + 1)
            => segments'[Len(segments')].serial >= segments[Len(segments)].serial]_vars

C30_Witness ==
    /\ op = "compact"
    /\ compacted
    /\ WrittenKeys(segments) = Keys
    /\ Len(segments) >= 2
    /\ segments[Len(segments)].serial >= 5

\* C31: a delete step leaves the number of segments, the segments before the tail
\* and the directory as they were, whatever the size of the tail; the tail takes a
\* tombstone for one key and keeps its other entries, and its size does not grow.
C31_DeleteNeverRotates ==
    [][(op' = "delete" /\ nops' = nops + 1)
        => LET n == Len(segments)
           IN /\ Len(segments') = n
              /\ files' = files
              /\ isDir' = isDir
              /\ result' = "Ok"
              /\ \A i \in 1..(n - 1) : segments'[i] = segments[i]
              /\ \E key \in Keys :
                     /\ segments'[n].data = Put(segments[n].data, key, None)
                     /\ last' = [last EXCEPT ![key] = None]
              /\ segments'[n].size <= segments[n].size]_vars

C31_Witness ==
    /\ op = "delete"
    /\ segments[Len(segments)].size > SEGMENT_SIZE_LIMIT
    /\ \E key \in Keys :
           /\ key \in DOMAIN segments[Len(segments)].data
           /\ ~segments[Len(segments)].data[key].some
    /\ sst_filename(segments[Len(segments)].serial) \notin DOMAIN files

-----------------------------------------------------------------------------
(* Properties of the log *)

\* C4: an iteration that has ended has yielded the entries appended: as many, the
\* same bytes, in the same order.
C4_LogRoundTrip ==
    iter.done => yielded = appended

\* the frames of the entries, one after the other
RECURSIVE Frames(_)
Frames(entries) ==
    IF entries = <<>> THEN <<>>
    ELSE to_be_bytes(Len(Head(entries))) \o Head(entries) \o Frames(Tail(entries))

\* C15: two iterations with no append between them yield the same; an append made
\* after an iteration is placed after the last frame of the log and is the last
\* item of the next iteration.
C15_IterationRestartable ==
    ~torn =>
        /\ (iter.done /\ prev.some) => yielded = prev.v
        /\ storage.inner = Frames(appended)
        /\ (iter.done /\ resumed) =>
              /\ yielded # <<>>
              /\ yielded[Len(yielded)] = appended[Len(appended)]

\* C14: the iteration of a log whose last frame is cut short, in its prefix or in
\* its payload, yields the complete frames before it and nothing else. Stated here
\* is the second half: every item yielded is one of those frames, in their order.
C14_TruncatedFrameEndsCleanly ==
    (torn /\ iter.active) =>
        /\ Len(yielded) <= Len(appended)
        /\ yielded = SubSeq(appended, 1, Len(yielded))

\* what a whole iteration of a log over a cursor yields
RECURSIVE Log_collect(_, _)
Log_collect(c, it) ==
    LET r == LogIterator_next(c, it)
    IN IF r.item.some THEN <<r.item.v>> \o Log_collect(r.storage, r.iter) ELSE <<>>

\* C19: for the same appends, whatever the threshold and the number of backing
\* files, an iteration of the log over the segmented stream yields what an
\* iteration of the log over an in-memory buffer yields.
C19_FileLogLikeMemoryLog ==
    (iter.done /\ stream.segments # <<>>) =>
        yielded = Log_collect(storage, [NoIterator EXCEPT !.active = TRUE])

-----------------------------------------------------------------------------
(* Properties of the stream *)

\* the ranges of the segments are in order and touch: the first starts at 0, each
\* next one starts where the one before it ends, and none ends before it starts
Contiguous(segs) ==
    /\ segs # <<>> => segs[1].start = 0
    /\ \A i \in 1..Len(segs) : segs[i].start <= segs[i].end
    /\ \A i \in 1..(Len(segs) - 1) : segs[i + 1].start = segs[i].end

\* C16: after any seeks and writes, every write has landed at the logical end of
\* the tail, the sum of the segment sizes is the number of bytes written, and the
\* segment ranges are contiguous and ordered.
C16_WriteAppendOnly ==
    (scall.op \in {"write", "seek"} /\ ~stream.panicked) =>
        /\ total_size(stream.segments) = Len(written)
        /\ Contiguous(stream.segments)

\* C17: seek sets the cursor to n for Start(n), to cursor + n for Current(n) and to
\* the sum of the segment sizes + n for End(n); a negative target of Current or End
\* makes the call fail with invalid-input and leaves the cursor as it was.
C17_SeekSemantics ==
    [][(scall'.op = "seek" /\ sops' = sops + 1) =>
          LET target == IF scall'.from = "Start" THEN scall'.n
                        ELSE IF scall'.from = "Current" THEN stream.position + scall'.n
                        ELSE total_size(stream.segments) + scall'.n
          IN IF scall'.from # "Start" /\ target < 0
             THEN sresult' = "InvalidInput" /\ stream'.position = stream.position
             ELSE sresult' = "Ok" /\ stream'.position = target]_vars

\* C18: a write opens a new file, named by its ordinal index, exactly when there is
\* no segment or the tail is larger than the threshold; else the whole buffer goes
\* into the tail; the segments before the tail are larger than the threshold; and
\* the cursor and the end of the tail advance by the number of bytes written.
C18_RotationRule ==
    [][(scall'.op = "write" /\ sops' = sops + 1) =>
          LET n == Len(stream.segments)
              max == stream.max_segment_size
              buf == scall'.buf
              rotate == n = 0 \/ stream.segments[n].end - stream.segments[n].start > max
              m == IF rotate THEN n + 1 ELSE n
              segs == stream'.segments
          IN /\ sresult' = "Ok"
             /\ Len(segs) = m
             /\ \A i \in 1..(m - 1) :
                   /\ segs[i] = stream.segments[i]
                   /\ segs[i].end - segs[i].start > max
             /\ rotate => /\ segs[m].file.name = log_filename(n)
                          /\ segs[m].file.content = buf
             /\ ~rotate => segs[m].file.content = stream.segments[n].file.content \o buf
             /\ stream'.position = stream.position + Len(buf)
             /\ segs[m].end = (IF rotate THEN segs[m].start
                               ELSE stream.segments[n].end) + Len(buf)]_vars

\* C32: a read step leaves the logical cursor, the number of segments and every
\* segment's start, end and file content as they were; a read made right after it
\* returns what the same read would have returned before it (the search being a
\* function of the segment list, it resolves to the same index both times); and with
\* no segment, or with the cursor in no segment's [start, end), a read returns 0
\* bytes.
C32_ReadLeavesStream ==
    [][(scall'.op = "read" /\ sops' = sops + 1)
        => /\ stream'.position = stream.position
           /\ stream'.max_segment_size = stream.max_segment_size
           /\ Len(stream'.segments) = Len(stream.segments)
           /\ \A i \in 1..Len(stream.segments) :
                  /\ stream'.segments[i].start = stream.segments[i].start
                  /\ stream'.segments[i].end = stream.segments[i].end
                  /\ stream'.segments[i].file.name = stream.segments[i].file.name
                  /\ stream'.segments[i].file.content = stream.segments[i].file.content
           /\ binary_search(stream'.segments, stream'.position)
                  = binary_search(stream.segments, stream.position)
           /\ \A segment_index \in binary_search(stream.segments, stream.position),
                 n \in ReadSizes :
                  FileSegmentStream_read(stream', n, segment_index).data
                      = FileSegmentStream_read(stream, n, segment_index).data
           /\ (\A i \in 1..Len(stream.segments) :
                   segment_cmp(stream.segments[i], stream.position) # 1)
                => readOut'.data = <<>>]_vars

C32_Witness ==
    /\ scall.op = "read"
    /\ readOut.done
    /\ Len(readOut.data) > 0
    /\ readOut.at = stream.position
    /\ Len(stream.segments) >= 2
    /\ \E i \in 1..Len(stream.segments) :
           stream.segments[i].file.cursor # Len(stream.segments[i].file.content)

\* C5: after writes only, a seek to Start(p) and one read into n bytes return the
\* bytes at [p, p + n) of all that was written, cut at the logical end.
C5_ReadRoundTrip ==
    phase = "read" => readOut.data = ReadAt(written, readOut.at, readOut.n)

-----------------------------------------------------------------------------
(* Properties of the engine *)

\* the WAL records whose mutation has been applied to the table
AppliedRecords == IF epc = "logged" THEN SubSeq(wal, 1, Len(wal) - 1) ELSE wal

\* the entry of the last record of recs that writes key
RECURSIVE last_logged(_, _)
last_logged(recs, key) ==
    IF recs = <<>> THEN None
    ELSE IF recs[Len(recs)].key = key THEN record_entry(recs[Len(recs)])
    ELSE last_logged(SubSeq(recs, 1, Len(recs) - 1), key)

\* every mutation the table has taken since the engine was opened has its record:
\* the serials of the records follow one another, the latest serial is the serial
\* of the last applied record, and a key the records write reads as they say
SessionLogged ==
    /\ \A i \in 2..Len(wal) : wal[i].serial = wal[i - 1].serial + 1
    /\ wal # <<>> => latestSerial(segments) = wal[1].serial - 1 + Len(AppliedRecords)
    /\ wal # <<>> => mutations = Len(AppliedRecords)
    /\ wal = <<>> => mutations = 0
    /\ \A key \in Keys :
           (\E i \in 1..Len(AppliedRecords) : AppliedRecords[i].key = key)
               => SSTable_get(segments, key) = last_logged(AppliedRecords, key)

\* C23 as stated: in every state each entry the table holds has a record in the WAL
\* that writes it.
C23_VisibleMutationsLogged ==
    \A key \in Keys :
        (\E i \in 1..Len(segments) : key \in DOMAIN segments[i].data)
            => \E j \in 1..Len(wal) :
                   /\ wal[j].key = key
                   /\ record_entry(wal[j]) = SSTable_get(segments, key)

\* C23: an engine insert or delete first appends the record with serial
\* latestSerial + 1 and leaves the table as it is, then applies to the table exactly
\* the record it appended; a failed append leaves the table and the WAL as they are;
\* and every mutation applied since the engine was opened has its record in the WAL
\* (the entries the table recovered at open have none: the log starts fresh).
C23_LogBeforeApply ==
    [][/\ (epc = "idle" /\ epc' = "logged")
            => /\ wal' = Append(wal, wal'[Len(wal')])
               /\ wal'[Len(wal')].serial = latestSerial(segments) + 1
               /\ segments' = segments
               /\ files' = files
       /\ (epc = "logged" /\ op' # "try_new")
            => /\ epc' = "idle"
               /\ wal' = wal
               /\ latestSerial(segments') = wal[Len(wal)].serial
               /\ SSTable_get(segments', wal[Len(wal)].key) = record_entry(wal[Len(wal)])
               /\ \A key \in Keys \ {wal[Len(wal)].key} :
                      SSTable_get(segments', key) = SSTable_get(segments, key)
       /\ (epc = "idle" /\ eresult' = "IOError")
            => /\ segments' = segments
               /\ files' = files
               /\ wal' = wal
       /\ SessionLogged']_vars

C23_Witness ==
    /\ epc = "idle"
    /\ eresult = "IOError"
    /\ Len(wal) >= 2
    /\ Len(segments) >= 2
    /\ \E i \in 1..Len(wal) : wal[i].opcode = "Delete"

-----------------------------------------------------------------------------
(* Properties of read_segment *)

\* the offset at which the encoding of the first k records ends
record_end(recs, k) == Len(encode_records(SubSeq(recs, 1, k)))

\* the offset of the terminator of the key of record k
key_end(recs, k) == record_end(recs, k - 1) + Len(recs[k].key) + 1

\* the input ends exactly where a record ends, or is empty
AtKeyBoundary(in) == \E k \in 0..Len(in.records) : in.cut = record_end(in.records, k)

\* the input holds, terminator included, a key that is not UTF-8
HoldsBadKey(in) ==
    \E k \in 1..Len(in.records) :
        key_end(in.records, k) <= in.cut /\ ~IsUtf8(in.records[k].key)

\* the records the input holds in full
WholeRecords(in) ==
    SubSeq(in.records, 1,
           CHOOSE k \in 0..Len(in.records) :
               /\ record_end(in.records, k) <= in.cut
               /\ \A j \in 0..Len(in.records) : record_end(in.records, j) <= in.cut => j <= k)

\* C29: read_segment returns a segment exactly when the input ends where a record
\* ends (the empty input included) and every key in it is UTF-8; the segment then
\* holds the keys of the records read, each live value as written, with the serial
\* raised by the number of records, and the empty input gives the empty segment of
\* size 0. Any other input gives an error: InvalidData when a whole key is not
\* UTF-8, UnexpectedEof when the input ends inside a key, a length or a value.
C29_DecodeEndsAtKeyBoundary ==
    decoded.done =>
        LET r == decoded.r
            recs == WholeRecords(input)
        IN /\ r.ok <=> (AtKeyBoundary(input) /\ ~HoldsBadKey(input))
           /\ r.ok => /\ r.err = "none"
                      /\ DOMAIN r.segment.data = {recs[k].key : k \in 1..Len(recs)}
                      /\ r.segment.serial = input.serial + Len(recs)
                      /\ \A k \in 1..Len(recs) :
                             (\A j \in (k + 1)..Len(recs) : recs[j].key # recs[k].key)
                                 => r.segment.data[recs[k].key] =
                                        IF recs[k].value = <<>> THEN None
                                        ELSE Some(recs[k].value)
                      /\ input.cut = 0 => r.segment = SSTableSegment_new(input.serial)
           /\ ~r.ok => r.err \in {"UnexpectedEof", "InvalidData"}
           /\ (~r.ok /\ ~HoldsBadKey(input)) => r.err = "UnexpectedEof"
           /\ (~AtKeyBoundary(input) /\ ~HoldsBadKey(input)) => r.err = "UnexpectedEof"

C29_Witness ==
    /\ decoded.done
    /\ ~decoded.r.ok
    /\ decoded.r.err = "UnexpectedEof"
    /\ Len(WholeRecords(input)) = 1
    /\ input.cut > key_end(input.records, 2)
    /\ input.cut < key_end(input.records, 2) + 4

====
